---- MODULE Spec2Model ----
(***************************************************************************)
(* Randomized incremental construction engines of                          *)
(* app/modules/ric_closest_pair/simulation.py and                          *)
(* app/modules/ric_smallest_enclosing_circle/simulation.py, and the form   *)
(* handling of app/modules/ric_closest_pair/controller.py.                 *)
(*                                                                         *)
(* Numbers.  Points lie on a lattice of pitch 1/8: the coordinate i of the *)
(* model is the float i/8, which is exact in binary floating point.  On    *)
(* this lattice every quantity the engines compare is a rational with a    *)
(* small denominator, so two of them are either equal or differ by far     *)
(* more than the tolerances 1e-9 and 1e-12 of the code, and the float      *)
(* comparisons agree with the exact ones used here.                        *)
(*   - A distance is held as its square in lattice units (hypot(a,b)^2);   *)
(*     comparing squares is comparing distances.                           *)
(*   - Inf, None and Eps are the three values a length can take besides a  *)
(*     distance: math.inf, Python's None and the clamp 1e-9.               *)
(*   - A circle {cx, cy, r} is held as [cxn, cyn, den, r2n] with           *)
(*     cx = cxn/den, cy = cyn/den, r^2 = r2n/den^2; den = 0 is None.       *)
(***************************************************************************)
EXTENDS Integers, Sequences, FiniteSets, TLC

\* ---------------------------------------------------------------- bounds
MaxCoord == 2
MaxPoints == 3
MaxSeed == 2
\* the lattice of step 2^-22 and the longest stream on it
FineCoord == 3
FinePoints == 4

\* ------------------------------------------------------------- constants
Inf == -1
None == -2
Eps == -3
\* floor((1/8) / 1e-9) in double precision is 124999999, one below 1.25e8
EpsCellsPerUnit == 125000000
\* the form's default x_max and y_max, 10.0, in lattice steps
DefaultMax == 80
\* the outcome of a division by 0.0, which raises ZeroDivisionError; no cell
\* index of the lattice is that small
ZeroDivision == -1000000000
\* abs(d) < 1e-12 on the lattice of step 2^-22: d is D * 2^-44 for the integer
\* determinant D, and 17 * 2^-44 < 1e-12 <= 18 * 2^-44
FineDetLimit == 17
\* 1e-6 in steps of 2^-22 is 4.19...: abs(dist - r) <= 1e-6 there is
\* abs(dist - r) <= 4 steps, no distance of the lattice falling in between
FineBoundarySteps == 4

Coords == 0 .. MaxCoord
Lattice == Coords \X Coords
NoPair == <<>>

\* params, points: the argument of run() and the stream it iterates over,
\* params.fine telling the step of the lattice, 1/8 or 2^-22;
\* cp, sec: the locals of the run() of the closest pair engine and of the
\* smallest enclosing circle engine; runs: the results of finished calls;
\* request: the form handed to run_module, its response and the calls of
\* simulation.run it has made; registry: the dictionary _MODULES of
\* registry.py and the calls made to the module
VARIABLES params, points, cp, sec, runs, request, registry

vars == <<params, points, cp, sec, runs, request, registry>>

\* ------------------------------------------------------- point stream
\* random.Random is the standard library's generator: a deterministic
\* function of its state.  It is modelled by a generator of period 16 whose
\* draws cover the lattice and one coordinate below and above it.

\* mutant: the generator is seeded from the system's entropy whatever the seed
RngSeedIgnored(seed, entropy) == entropy

\* random.Random(seed): the state is a function of the seed, and comes from
\* the system's entropy when the seed is None
RngSeed(seed, entropy) == IF seed = None THEN entropy ELSE seed % 16

RngNext(rng) == (5 * rng + 3) % 16

\* the value of a call of rng.gauss that leaves the generator in state rng
GaussValue(rng) == ((rng \div 2) % (MaxCoord + 3)) - 1

\* the value of a call of randbelow(n) that leaves the generator in state rng
RandBelow(rng, n) == (rng \div 2) % n

\* mutant: every draw is kept, within the bounds or not
RECURSIVE SamplePointsUnchecked(_, _, _)
SamplePointsUnchecked(p, rng, pts) ==
    IF Len(pts) >= p.n_points THEN <<pts, rng>>
    ELSE LET r1 == RngNext(rng)
             r2 == RngNext(r1)
         IN SamplePointsUnchecked(p, r2, Append(pts, <<GaussValue(r1), GaussValue(r2)>>))

\* the while loop of _sample_points: <<points, rng>> when it ends
RECURSIVE SamplePoints(_, _, _)
SamplePoints(p, rng, pts) ==
    IF Len(pts) >= p.n_points THEN <<pts, rng>>
    ELSE LET r1 == RngNext(rng)
             r2 == RngNext(r1)
             x == GaussValue(r1)
             y == GaussValue(r2)
         IN IF p.x_min <= x /\ x <= p.x_max /\ p.y_min <= y /\ y <= p.y_max
            THEN SamplePoints(p, r2, Append(pts, <<x, y>>))
            ELSE SamplePoints(p, r2, pts)

\* rng.shuffle(points): for i in reversed(range(1, len(x))), swap x[i] and
\* x[randbelow(i + 1)]; i is the 0-based index
RECURSIVE Shuffle(_, _, _)
Shuffle(pts, rng, i) ==
    IF i < 1 THEN pts
    ELSE LET r == RngNext(rng)
             j == RandBelow(r, i + 1)
         IN Shuffle([pts EXCEPT ![i + 1] = pts[j + 1], ![j + 1] = pts[i + 1]], r, i - 1)

\* the sampling loop written out in the run() of the smallest enclosing
\* circle engine: <<points, rng>> when it ends
RECURSIVE SECSamplePoints(_, _, _)
SECSamplePoints(p, rng, pts) ==
    IF Len(pts) >= p.n_points THEN <<pts, rng>>
    ELSE LET r1 == RngNext(rng)
             r2 == RngNext(r1)
             x == GaussValue(r1)
             y == GaussValue(r2)
         IN IF p.x_min <= x /\ x <= p.x_max /\ p.y_min <= y /\ y <= p.y_max
            THEN SECSamplePoints(p, r2, Append(pts, <<x, y>>))
            ELSE SECSamplePoints(p, r2, pts)

\* mutant: the circle engine iterates over the sample without shuffling it
SECPointStreamUnshuffled(p, entropy) ==
    SECSamplePoints(p, RngSeed(p.seed, entropy), <<>>)[1]

\* the circle engine's run() up to its loop: sample, then shuffle
SECPointStream(p, entropy) ==
    LET sampled == SECSamplePoints(p, RngSeed(p.seed, entropy), <<>>)
    IN Shuffle(sampled[1], sampled[2], Len(sampled[1]) - 1)

\* the first three lines of run(): sample, then shuffle
PointStream(p, entropy) ==
    LET sampled == SamplePoints(p, RngSeed(p.seed, entropy), <<>>)
    IN Shuffle(sampled[1], sampled[2], Len(sampled[1]) - 1)

\* ------------------------------------------------- closest pair: helpers
\* _distance, as the square of math.hypot
Distance(a, b) == (a[1] - b[1]) * (a[1] - b[1]) + (a[2] - b[2]) * (a[2] - b[2])

\* mutant: min in place of max, for a non-zero distance
ClampCellSizeMin(d) == Eps

\* mutant: the distance itself, with no lower limit
ClampCellSizeNone(d) == d

\* max(best_distance, 1e-9): every non-zero lattice distance is >= 1/8
ClampCellSize(d) == IF d > 0 THEN d ELSE Eps

\* the coordinates whose double quotient by 1e-9 rounds below the integer
EpsRoundsDown(i) == i \in {1, 2, 4, 8, 16, 17}

\* int(math.floor(delta / cell_size)) for a lattice offset delta; a division
\* by 0.0 is a ZeroDivisionError
FloorDiv(delta, cell_size) ==
    IF cell_size = 0 THEN ZeroDivision
    ELSE IF cell_size = Eps
    THEN delta * EpsCellsPerUnit - (IF EpsRoundsDown(delta) THEN 1 ELSE 0)
    ELSE IF delta >= 0
         THEN CHOOSE k \in 0 .. delta :
                  /\ k * k * cell_size <= delta * delta
                  /\ (k + 1) * (k + 1) * cell_size > delta * delta
         ELSE -(CHOOSE k \in 0 .. (-delta) :
                  /\ k * k * cell_size >= delta * delta
                  /\ (k = 0 \/ (k - 1) * (k - 1) * cell_size < delta * delta))

\* mutant: the two components of the key are exchanged
CellKeySwapped(point, origin, cell_size) ==
    << FloorDiv(point[2] - origin[2], cell_size),
       FloorDiv(point[1] - origin[1], cell_size) >>

CellKey(point, origin, cell_size) ==
    << FloorDiv(point[1] - origin[1], cell_size),
       FloorDiv(point[2] - origin[2], cell_size) >>

\* mutant: grid.get(key, []).append(point), which loses the first point of a cell
GridAppendLost(grid, key, point) ==
    IF key \in DOMAIN grid
    THEN [grid EXCEPT ![key] = Append(@, point)]
    ELSE grid

\* grid.setdefault(key, []).append(point)
GridAppend(grid, key, point) ==
    IF key \in DOMAIN grid
    THEN [grid EXCEPT ![key] = Append(@, point)]
    ELSE grid @@ (key :> <<point>>)

RECURSIVE BuildGridFrom(_, _, _, _, _)
BuildGridFrom(grid, pts, i, origin, cell_size) ==
    IF i > Len(pts) THEN grid
    ELSE BuildGridFrom(GridAppend(grid, CellKey(pts[i], origin, cell_size), pts[i]),
                       pts, i + 1, origin, cell_size)

EmptyGrid == [k \in {} |-> <<>>]

BuildGrid(pts, origin, cell_size) == BuildGridFrom(EmptyGrid, pts, 1, origin, cell_size)

GridGet(grid, key) == IF key \in DOMAIN grid THEN grid[key] ELSE <<>>

\* mutant: the loops run over (0, 1) and leave out the cells below and left
NeighborOffsetsForward ==
    << <<0, 0>>, <<0, 1>>, <<1, 0>>, <<1, 1>> >>

\* the nine cells in the order of the two nested loops over (-1, 0, 1)
NeighborOffsets ==
    << <<-1, -1>>, <<-1, 0>>, <<-1, 1>>,
       <<0, -1>>,  <<0, 0>>,  <<0, 1>>,
       <<1, -1>>,  <<1, 0>>,  <<1, 1>> >>

RECURSIVE NeighborFrom(_, _, _)
NeighborFrom(grid, key, n) ==
    IF n > Len(NeighborOffsets) THEN <<>>
    ELSE GridGet(grid, <<key[1] + NeighborOffsets[n][1], key[2] + NeighborOffsets[n][2]>>)
         \o NeighborFrom(grid, key, n + 1)

\* mutant: the cell of the point alone, without its eight neighbours
NeighborPointsOwnCell(grid, key) == GridGet(grid, key)

NeighborPoints(grid, key) == NeighborFrom(grid, key, 1)

\* ---------------------------------------------------- closest pair: run
Origin(p) == <<p.x_min, p.y_min>>

\* the locals of run() before the loop
CPStart ==
    [ processed |-> <<>>, grid |-> EmptyGrid, cell_size |-> None,
      best_pair |-> NoPair, best_distance |-> Inf, rebuilds |-> 0,
      rebuilt |-> FALSE, states |-> <<>>, pc |-> "loop",
      summary |-> [ n_points |-> None, best_distance |-> None,
                    best_pair |-> NoPair, rebuilds |-> None ] ]

\* mutant: the pair is reseeded from processed[0] at every insertion
SeedsPairAlways(e) == Len(e.processed) >= 1

\* mutant: the first pair is seeded one insertion late
SeedsPairLate(e) == Len(e.processed) >= 2 /\ e.best_distance = Inf

\* if len(processed) >= 1 and math.isinf(best_distance)
SeedsPair(e) == Len(e.processed) >= 1 /\ e.best_distance = Inf

\* mutant: the scan keeps the farther candidate
Farther(dist, new_distance) == dist > new_distance

\* if dist < new_distance
Closer(dist, new_distance) == dist < new_distance

\* mutant: <= in place of <
ShrinksOrEqual(new_distance, best_distance) == new_distance <= best_distance

\* if new_distance < best_distance
Shrinks(new_distance, best_distance) == new_distance < best_distance

\* mutant: the scan pairs the new point with itself
RECURSIVE ScanCandidatesSelfPair(_, _, _, _, _)
ScanCandidatesSelfPair(point, candidates, n, new_distance, new_pair) ==
    IF n > Len(candidates) THEN <<new_distance, new_pair>>
    ELSE LET dist == Distance(point, candidates[n])
         IN IF Closer(dist, new_distance)
            THEN ScanCandidatesSelfPair(point, candidates, n + 1, dist, <<point, point>>)
            ELSE ScanCandidatesSelfPair(point, candidates, n + 1, new_distance, new_pair)

\* the scan of the candidates: <<new_distance, new_pair>> after candidates[n..]
RECURSIVE ScanCandidates(_, _, _, _, _)
ScanCandidates(point, candidates, n, new_distance, new_pair) ==
    IF n > Len(candidates) THEN <<new_distance, new_pair>>
    ELSE LET other == candidates[n]
             dist == Distance(point, other)
         IN IF Closer(dist, new_distance)
            THEN ScanCandidates(point, candidates, n + 1, dist, <<point, other>>)
            ELSE ScanCandidates(point, candidates, n + 1, new_distance, new_pair)

\* the update of an iteration: the engine's locals after the if / elif,
\* entered with rebuilt = False
CPUpdate(e, point, origin) ==
    IF SeedsPair(e)
    THEN LET candidate == e.processed[1]
             bd == Distance(point, candidate)
             cs == ClampCellSize(bd)
         IN [ e EXCEPT !.best_distance = bd,
                       !.best_pair = <<candidate, point>>,
                       !.cell_size = cs,
                       !.grid = BuildGrid(Append(e.processed, point), origin, cs),
                       !.rebuilds = @ + 1,
                       !.rebuilt = TRUE ]
    ELSE IF e.cell_size # None
    THEN LET key == CellKey(point, origin, e.cell_size)
             candidates == NeighborPoints(e.grid, key)
             scan == ScanCandidates(point, candidates, 1, e.best_distance, e.best_pair)
             new_distance == scan[1]
             new_pair == scan[2]
         IN IF Shrinks(new_distance, e.best_distance)
            THEN LET cs == ClampCellSize(new_distance)
                 IN [ e EXCEPT !.best_distance = new_distance,
                               !.best_pair = new_pair,
                               !.cell_size = cs,
                               !.grid = BuildGrid(Append(e.processed, point), origin, cs),
                               !.rebuilds = @ + 1,
                               !.rebuilt = TRUE ]
            ELSE [ e EXCEPT !.grid = GridAppend(e.grid, key, point) ]
    ELSE e

\* mutant: the records hold the list processed itself, not a copy of it
Aliased(states, processed) ==
    [k \in 1 .. Len(states) |-> [states[k] EXCEPT !.points = processed]]

\* the earlier step records after a later append: each holds its own copy of
\* the list (processed.copy(), points[:idx + 1]), a tuple of points, floats
\* and a circle dict that is replaced and never written to
Detached(states, processed) == states

\* mutant: the summary counts the steps in place of the rebuilds
CPSummaryCountsSteps(e, pts) ==
    [ n_points |-> Len(pts),
      best_distance |-> IF e.best_distance = Inf THEN None ELSE e.best_distance,
      best_pair |-> e.best_pair,
      rebuilds |-> Len(e.states) ]

\* one iteration of the loop of run(): update, append, record the step
CPInsert(e, point, origin) ==
    LET u == CPUpdate([e EXCEPT !.rebuilt = FALSE], point, origin)
        processed == Append(e.processed, point)
    IN [ u EXCEPT !.processed = processed,
                  !.states = Append(Detached(@, processed),
                      [ step |-> Len(e.states),
                        point |-> point,
                        points |-> processed,
                        best_pair |-> u.best_pair,
                        best_distance |-> IF u.best_distance = Inf THEN None
                                          ELSE u.best_distance,
                        cell_size |-> u.cell_size,
                        rebuild |-> u.rebuilt ]) ]

CPSummary(e, pts) ==
    [ n_points |-> Len(pts),
      best_distance |-> IF e.best_distance = Inf THEN None ELSE e.best_distance,
      best_pair |-> e.best_pair,
      rebuilds |-> e.rebuilds ]

\* ------------------------------------- smallest enclosing circle: helpers
NoCircle == [cxn |-> 0, cyn |-> 0, den |-> 0, r2n |-> 0]

\* _dist_sq((cx, cy), point), times den^2
CenterDistSq(circle, point) ==
    (circle.cxn - point[1] * circle.den) * (circle.cxn - point[1] * circle.den)
    + (circle.cyn - point[2] * circle.den) * (circle.cyn - point[2] * circle.den)

\* mutant: the distance in place of half the distance
CircleFromTwoPointsFullRadius(a, b) ==
    [cxn |-> a[1] + b[1], cyn |-> a[2] + b[2], den |-> 2, r2n |-> 4 * Distance(a, b)]

\* midpoint and half the distance: r^2 = dist_sq / 4
CircleFromTwoPoints(a, b) ==
    [cxn |-> a[1] + b[1], cyn |-> a[2] + b[2], den |-> 2, r2n |-> Distance(a, b)]

\* max(pairs, key=dist_sq): the first pair of the list with the largest distance
CircleFromFarthestPair(a, b, c) ==
    LET ab == Distance(a, b)
        ac == Distance(a, c)
        bc == Distance(b, c)
    IN IF ab >= ac /\ ab >= bc THEN CircleFromTwoPoints(a, b)
       ELSE IF ac >= bc THEN CircleFromTwoPoints(a, c)
       ELSE CircleFromTwoPoints(b, c)

Determinant(a, b, c) ==
    2 * (a[1] * (b[2] - c[2]) + b[1] * (c[2] - a[2]) + c[1] * (a[2] - b[2]))

Abs(i) == IF i < 0 THEN -i ELSE i

\* abs(d) < 1e-12: on the lattice of step 1/8 that is d = 0, on the lattice of
\* step 2^-22 it is |D| <= FineDetLimit
DetNearZero(d) == IF params.fine THEN Abs(d) <= FineDetLimit ELSE d = 0

\* mutant: the circle of the farthest pair in place of the circumcircle
CircleFromThreePointsFarthest(a, b, c) == CircleFromFarthestPair(a, b, c)

CircleFromThreePoints(a, b, c) ==
    LET d == Determinant(a, b, c)
        ax2ay2 == a[1] * a[1] + a[2] * a[2]
        bx2by2 == b[1] * b[1] + b[2] * b[2]
        cx2cy2 == c[1] * c[1] + c[2] * c[2]
        uxn == ax2ay2 * (b[2] - c[2]) + bx2by2 * (c[2] - a[2]) + cx2cy2 * (a[2] - b[2])
        uyn == ax2ay2 * (c[1] - b[1]) + bx2by2 * (a[1] - c[1]) + cx2cy2 * (b[1] - a[1])
    IN IF DetNearZero(d) THEN CircleFromFarthestPair(a, b, c)
       ELSE [ cxn |-> uxn, cyn |-> uyn, den |-> d,
              r2n |-> (uxn - a[1] * d) * (uxn - a[1] * d)
                      + (uyn - a[2] * d) * (uyn - a[2] * d) ]

\* _dist_sq(center, point) <= (r + eps)^2
Inside(circle, point) == CenterDistSq(circle, point) <= circle.r2n

\* mutant: the loop over k is missing
RicInnerMissing(pts, j, k, p, q, circle) == circle

\* mutant: the test that skips the points inside the circle is missing
RECURSIVE RicInnerNoSkip(_, _, _, _, _, _)
RicInnerNoSkip(pts, j, k, p, q, circle) ==
    IF k >= j THEN circle
    ELSE RicInnerNoSkip(pts, j, k + 1, p, q, CircleFromThreePoints(p, q, pts[k + 1]))

\* the loop over k in range(j) with p and q on the boundary
RECURSIVE RicInner(_, _, _, _, _, _)
RicInner(pts, j, k, p, q, circle) ==
    IF k >= j THEN circle
    ELSE LET r == pts[k + 1]
         IN IF Inside(circle, r)
            THEN RicInner(pts, j, k + 1, p, q, circle)
            ELSE RicInner(pts, j, k + 1, p, q, CircleFromThreePoints(p, q, r))

\* the loop over j in range(end_index) with p on the boundary
RECURSIVE RicOuter(_, _, _, _, _)
RicOuter(pts, end_index, j, p, circle) ==
    IF j >= end_index THEN circle
    ELSE LET q == pts[j + 1]
         IN IF Inside(circle, q)
            THEN RicOuter(pts, end_index, j + 1, p, circle)
            ELSE RicOuter(pts, end_index, j + 1, p,
                          RicInner(pts, j, 0, p, q, CircleFromTwoPoints(p, q)))

RicCircleWithBoundary(pts, end_index, p) ==
    RicOuter(pts, end_index, 0, p, [cxn |-> p[1], cyn |-> p[2], den |-> 1, r2n |-> 0])

\* abs(dist - r) <= steps lattice steps, with dist and r given by their squares
\* times den^2
WithinSteps(dist2, r2, den, steps) ==
    LET slack == dist2 + r2 - steps * steps * den * den
    IN slack <= 0 \/ slack * slack <= 4 * dist2 * r2

\* abs(dist - r) <= 1e-6: on the lattice of step 1/8, dist = r
BoundaryCount(pts, circle) ==
    Cardinality({i \in 1 .. Len(pts) :
        IF params.fine
        THEN WithinSteps(CenterDistSq(circle, pts[i]), circle.r2n, circle.den,
                         FineBoundarySteps)
        ELSE CenterDistSq(circle, pts[i]) = circle.r2n})

\* ---------------------------------------- smallest enclosing circle: run
SECStart ==
    [ circle |-> NoCircle, rebuilds |-> 0, rebuilt |-> FALSE, states |-> <<>>,
      pc |-> "loop",
      summary |-> [ center |-> NoPair, radius |-> None, boundary_points |-> None,
                    n_points |-> None, rebuilds |-> None ] ]

\* mutant: the first point sets the circle without counting a rebuild
SECUpdateQuietFirst(e, pts, idx, point) ==
    IF e.circle = NoCircle
    THEN [ e EXCEPT !.circle = [cxn |-> point[1], cyn |-> point[2], den |-> 1, r2n |-> 0] ]
    ELSE IF ~Inside(e.circle, point)
    THEN [ e EXCEPT !.circle = RicCircleWithBoundary(pts, idx, point),
                    !.rebuilds = @ + 1,
                    !.rebuilt = TRUE ]
    ELSE e

\* mutant: the rebuild takes the circle of the new and the previous point
SECUpdateFromLast(e, pts, idx, point) ==
    IF e.circle = NoCircle \/ ~Inside(e.circle, point)
    THEN [ e EXCEPT !.circle = IF idx > 0 THEN CircleFromTwoPoints(point, pts[idx])
                               ELSE [cxn |-> point[1], cyn |-> point[2], den |-> 1, r2n |-> 0],
                    !.rebuilds = @ + 1,
                    !.rebuilt = TRUE ]
    ELSE e

\* mutant: the circle is recomputed at every insertion, inside or not
SECUpdateAlways(e, pts, idx, point) ==
    [ e EXCEPT !.circle = RicCircleWithBoundary(pts, idx, point),
               !.rebuilds = @ + 1,
               !.rebuilt = TRUE ]

\* the if of an iteration, entered with rebuilt = False
SECUpdate(e, pts, idx, point) ==
    IF e.circle = NoCircle \/ ~Inside(e.circle, point)
    THEN [ e EXCEPT !.circle = RicCircleWithBoundary(pts, idx, point),
                    !.rebuilds = @ + 1,
                    !.rebuilt = TRUE ]
    ELSE e

\* mutant: the steps are numbered from one
SECInsertStepFromOne(e, pts, idx) ==
    LET point == pts[idx + 1]
        u == SECUpdate([e EXCEPT !.rebuilt = FALSE], pts, idx, point)
    IN [ u EXCEPT !.states = Append(Detached(@, SubSeq(pts, 1, idx + 1)),
                      [ step |-> idx + 1,
                        point |-> point,
                        points |-> SubSeq(pts, 1, idx + 1),
                        circle |-> u.circle,
                        rebuild |-> u.rebuilt ]) ]

\* one iteration of the loop of run(): idx is the 0-based index of the point
SECInsert(e, pts, idx) ==
    LET point == pts[idx + 1]
        u == SECUpdate([e EXCEPT !.rebuilt = FALSE], pts, idx, point)
    IN [ u EXCEPT !.states = Append(Detached(@, SubSeq(pts, 1, idx + 1)),
                      [ step |-> idx,
                        point |-> point,
                        points |-> SubSeq(pts, 1, idx + 1),
                        circle |-> u.circle,
                        rebuild |-> u.rebuilt ]) ]

SECSummary(e, pts) ==
    LET final_circle == IF e.circle = NoCircle
                        THEN [cxn |-> 0, cyn |-> 0, den |-> 1, r2n |-> 0]
                        ELSE e.circle
    IN [ center |-> <<final_circle.cxn, final_circle.cyn, final_circle.den>>,
         radius |-> <<final_circle.r2n, final_circle.den>>,
         boundary_points |-> BoundaryCount(pts, final_circle),
         n_points |-> Len(pts),
         rebuilds |-> e.rebuilds ]

\* ------------------------------------------------------------- controller
\* The floats of the form: a finite number in lattice steps, or one of the
\* three values float() also returns, nan, inf and -inf.
FloatNum(v) == [kind |-> "num", v |-> v]
FloatNaN == [kind |-> "nan", v |-> 0]
FloatInf == [kind |-> "inf", v |-> 0]
FloatNegInf == [kind |-> "-inf", v |-> 0]

IsFinite(a) == a.kind = "num"

\* a >= b and a < b of Python floats: every comparison with nan is False
FloatGe(a, b) ==
    IF a.kind = "nan" \/ b.kind = "nan" THEN FALSE
    ELSE IF a.kind = "inf" \/ b.kind = "-inf" THEN TRUE
    ELSE IF a.kind = "-inf" \/ b.kind = "inf" THEN FALSE
    ELSE a.v >= b.v

FloatLt(a, b) ==
    IF a.kind = "nan" \/ b.kind = "nan" THEN FALSE
    ELSE ~FloatGe(a, b)

\* data.get("seed") of a form without the field
NoField == "<missing>"

\* RicClosestPairForm()
FormDefaults ==
    [ n_points |-> 50, x_min |-> FloatNum(0), x_max |-> FloatNum(DefaultMax),
      y_min |-> FloatNum(0), y_max |-> FloatNum(DefaultMax),
      playback_speed_ms |-> 250, seed |-> None ]

\* int(value), or the fallback where int() raises ValueError or TypeError
ParseInt(value, fallback) ==
    CASE value = "1" -> 1
      [] value = "3" -> 3
      [] value = "7" -> 7
      [] value = "50" -> 50
      [] value = "5000" -> 5000
      [] OTHER -> fallback

\* float(value), or the fallback where float() raises; the numbers are
\* in lattice steps
ParseFloat(value, fallback) ==
    CASE value = "0" -> FloatNum(0)
      [] value = "5" -> FloatNum(DefaultMax \div 2)
      [] value = "10" -> FloatNum(DefaultMax)
      [] value = "nan" -> FloatNaN
      [] value = "inf" -> FloatInf
      [] value = "-inf" -> FloatNegInf
      [] OTHER -> fallback

Max(a, b) == IF a >= b THEN a ELSE b
Min(a, b) == IF a <= b THEN a ELSE b

\* mutant: the bounds are tested for > in place of >=
BoundsErrorStrict(lo, hi) == FloatLt(hi, lo)

\* if x_min >= x_max, if y_min >= y_max
BoundsError(lo, hi) == FloatGe(lo, hi)

ParseForm(data) ==
    LET n_points == Max(2, Min(1000, ParseInt(data.n_points, FormDefaults.n_points)))
        x_min == ParseFloat(data.x_min, FormDefaults.x_min)
        x_max == ParseFloat(data.x_max, FormDefaults.x_max)
        y_min == ParseFloat(data.y_min, FormDefaults.y_min)
        y_max == ParseFloat(data.y_max, FormDefaults.y_max)
        playback_speed_ms ==
            Max(100, Min(1000, ParseInt(data.playback_speed_ms,
                                        FormDefaults.playback_speed_ms)))
        seed == IF data.seed \in {NoField, ""} THEN None ELSE ParseInt(data.seed, 0)
    IN [ form |-> [ n_points |-> n_points, x_min |-> x_min, x_max |-> x_max,
                    y_min |-> y_min, y_max |-> y_max,
                    playback_speed_ms |-> playback_speed_ms, seed |-> seed ],
         errors |-> (IF BoundsError(x_min, x_max) THEN {"x_min"} ELSE {})
                    \cup (IF BoundsError(y_min, y_max) THEN {"y_min"} ELSE {}) ]

\* simulation.SimulationParameters(...) of run_module
SimParams(form) ==
    [ n_points |-> form.n_points, x_min |-> form.x_min, x_max |-> form.x_max,
      y_min |-> form.y_min, y_max |-> form.y_max, seed |-> form.seed ]

\* the draw of one axis in _sample_points, gauss(mid, std) tested against
\* lo <= x <= hi: "accepts" when some draw passes the test and is finite,
\* "infinite" when the only draws that pass are inf or -inf, and "never" when
\* no draw passes (a nan bound, or the nan mid-point of -inf and inf)
AxisDraw(lo, hi) ==
    IF lo.kind = "nan" \/ hi.kind = "nan" THEN "never"
    ELSE IF lo.kind = "-inf" /\ hi.kind = "inf" THEN "never"
    ELSE IF lo.kind = "inf" \/ hi.kind = "-inf" THEN "never"
    ELSE IF IsFinite(lo) /\ IsFinite(hi)
         THEN (IF lo.v <= hi.v THEN "accepts" ELSE "never")
    ELSE "infinite"

\* simulation.run(sim_params) as run_module sees it: "returns" a result,
\* "raises" (two points with an infinite coordinate have the distance nan,
\* and the cell key of a nan is a ValueError), or "hangs" in the sampling loop
RunOutcome(p) ==
    LET x == AxisDraw(p.x_min, p.x_max)
        y == AxisDraw(p.y_min, p.y_max)
    IN IF "never" \in {x, y} THEN "hangs"
       ELSE IF "infinite" \in {x, y} THEN "raises"
       ELSE "returns"

\* the response of run_module before the simulation has run
EarlyResponse(parsed) ==
    [ errors |-> parsed.errors, parameters |-> parsed.form,
      animation_html |-> "", final_html |-> "", rebuild_html |-> "",
      summary |-> {} ]

\* no request yet
NoRequest ==
    [ pc |-> "idle", data |-> <<>>, response |-> <<>>, calls |-> <<>> ]

\* the forms that are submitted
FormData ==
    [ n_points : {"", "1", "3", "5000"},
      x_min : {"", "abc", "0", "5", "10", "nan", "inf", "-inf"},
      x_max : {"", "abc", "0", "5", "10", "nan", "inf", "-inf"},
      y_min : {"", "0", "10", "nan"},
      y_max : {"", "0", "10", "inf"},
      playback_speed_ms : {"", "50"},
      seed : {NoField, "", "7", "abc"} ]

\* registry.py after its import: _MODULES is empty, nothing has been called
NoRegistry == [modules |-> <<>>, loads |-> 0, queried |-> FALSE,
               called |-> "none", result |-> <<>>]

\* ------------------------------------------------------- specifications
\* the streams run() can iterate over: n_points points within the bounds
RECURSIVE Streams(_)
Streams(n) ==
    IF n = 0 THEN {<<>>}
    ELSE {Append(s, pt) : s \in Streams(n - 1), pt \in Lattice}

Bounds == [x_min |-> 0, x_max |-> MaxCoord, y_min |-> 0, y_max |-> MaxCoord]

\* a run without a seed: the generator starts anywhere, and the stream is any
\* sequence of n_points points within the bounds
InitParams ==
    /\ params \in [ n_points : 0 .. MaxPoints, x_min : {Bounds.x_min}, x_max : {Bounds.x_max},
                     y_min : {Bounds.y_min}, y_max : {Bounds.y_max}, seed : {None},
                     fine : {FALSE} ]
    /\ points \in Streams(params.n_points)
    /\ runs = <<>>
    /\ request = NoRequest
    /\ registry = NoRegistry

\* closest pair: the state of run() when its loop starts
CPInit ==
    /\ InitParams
    /\ cp = CPStart
    /\ sec = SECStart

CPStep ==
    /\ cp.pc = "loop"
    /\ Len(cp.states) < Len(points)
    /\ cp' = CPInsert(cp, points[Len(cp.states) + 1], Origin(params))
    /\ UNCHANGED <<params, points, sec, runs, request, registry>>

CPReturn ==
    /\ cp.pc = "loop"
    /\ Len(cp.states) = Len(points)
    /\ cp' = [cp EXCEPT !.pc = "done", !.summary = CPSummary(cp, points)]
    /\ UNCHANGED <<params, points, sec, runs, request, registry>>

CPNext == CPStep \/ CPReturn

SpecCP == CPInit /\ [][CPNext]_vars

\* smallest enclosing circle: the state of run() when its loop starts
SECInit ==
    /\ InitParams
    /\ cp = CPStart
    /\ sec = SECStart

SECStep ==
    /\ sec.pc = "loop"
    /\ Len(sec.states) < Len(points)
    /\ sec' = SECInsert(sec, points, Len(sec.states))
    /\ UNCHANGED <<params, points, cp, runs, request, registry>>

SECReturn ==
    /\ sec.pc = "loop"
    /\ Len(sec.states) = Len(points)
    /\ sec' = [sec EXCEPT !.pc = "done", !.summary = SECSummary(sec, points)]
    /\ UNCHANGED <<params, points, cp, runs, request, registry>>

SECNext == SECStep \/ SECReturn

SpecSEC == SECInit /\ [][SECNext]_vars

\* the same run() within bounds of a few 1e-7: the lattice has the step 2^-22
FineLattice == (0 .. FineCoord) \X (0 .. FineCoord)

RECURSIVE FineStreams(_)
FineStreams(n) ==
    IF n = 0 THEN {<<>>}
    ELSE {Append(s, pt) : s \in FineStreams(n - 1), pt \in FineLattice}

FineInit ==
    /\ params \in [ n_points : 0 .. FinePoints, x_min : {0}, x_max : {FineCoord},
                     y_min : {0}, y_max : {FineCoord}, seed : {None}, fine : {TRUE} ]
    /\ points \in FineStreams(params.n_points)
    /\ cp = CPStart
    /\ sec = SECStart
    /\ runs = <<>>
    /\ request = NoRequest
    /\ registry = NoRegistry

SpecSECFine == FineInit /\ [][SECNext]_vars

\* a call of run() of either engine: the engine that has started runs on
EnginesInit ==
    /\ InitParams
    /\ cp = CPStart
    /\ sec = SECStart

\* the closest pair engine runs, the circle engine not having been called
OnlyCPStep == sec = SECStart /\ CPStep
OnlyCPReturn == sec = SECStart /\ CPReturn

\* the circle engine runs, the closest pair engine not having been called
OnlySECStep == cp = CPStart /\ SECStep
OnlySECReturn == cp = CPStart /\ SECReturn

EnginesNext == OnlyCPStep \/ OnlyCPReturn \/ OnlySECStep \/ OnlySECReturn

SpecEngines == EnginesInit /\ [][EnginesNext]_vars

\* whole calls of run(), one after the other: the loop of each engine from
\* its first to its last iteration
RECURSIVE CPLoop(_, _, _)
CPLoop(e, pts, origin) ==
    IF Len(e.states) >= Len(pts) THEN e
    ELSE CPLoop(CPInsert(e, pts[Len(e.states) + 1], origin), pts, origin)

RECURSIVE SECLoop(_, _)
SECLoop(e, pts) ==
    IF Len(e.states) >= Len(pts) THEN e
    ELSE SECLoop(SECInsert(e, pts, Len(e.states)), pts)

\* a call of run(): its result, and the sample as it was before the shuffle
CPRun(p, entropy) ==
    LET pts == PointStream(p, entropy)
        e == CPLoop(CPStart, pts, Origin(p))
    IN [ engine |-> "closest_pair", params |-> p,
         sampled |-> SamplePoints(p, RngSeed(p.seed, entropy), <<>>)[1],
         points |-> pts, states |-> e.states, summary |-> CPSummary(e, pts) ]

SECRun(p, entropy) ==
    LET pts == SECPointStream(p, entropy)
        e == SECLoop(SECStart, pts)
    IN [ engine |-> "smallest_enclosing_circle", params |-> p,
         sampled |-> SECSamplePoints(p, RngSeed(p.seed, entropy), <<>>)[1],
         points |-> pts, states |-> e.states, summary |-> SECSummary(e, pts) ]

Seeds == {None} \cup (0 .. MaxSeed)

RunParams ==
    [ n_points : 0 .. MaxPoints, x_min : {Bounds.x_min}, x_max : {Bounds.x_max},
      y_min : {Bounds.y_min}, y_max : {Bounds.y_max}, seed : Seeds ]

RunsInit ==
    /\ params = [ n_points |-> 0, x_min |-> Bounds.x_min, x_max |-> Bounds.x_max,
                  y_min |-> Bounds.y_min, y_max |-> Bounds.y_max, seed |-> None,
                  fine |-> FALSE ]
    /\ points = <<>>
    /\ cp = CPStart
    /\ sec = SECStart
    /\ runs = <<>>
    /\ request = NoRequest
    /\ registry = NoRegistry

\* two calls are kept: the properties of repeated runs compare pairs of calls
CallCP ==
    /\ Len(runs) < 2
    /\ \E p \in RunParams, entropy \in 0 .. 15 :
           runs' = Append(runs, CPRun(p, entropy))
    /\ UNCHANGED <<params, points, cp, sec, request, registry>>

CallSEC ==
    /\ Len(runs) < 2
    /\ \E p \in RunParams, entropy \in 0 .. 15 :
           runs' = Append(runs, SECRun(p, entropy))
    /\ UNCHANGED <<params, points, cp, sec, request, registry>>

RunsNext == CallCP \/ CallSEC

SpecRuns == RunsInit /\ [][RunsNext]_vars

\* one request to run_module
FormInit ==
    /\ params = [ n_points |-> 0, x_min |-> Bounds.x_min, x_max |-> Bounds.x_max,
                  y_min |-> Bounds.y_min, y_max |-> Bounds.y_max, seed |-> None,
                  fine |-> FALSE ]
    /\ points = <<>>
    /\ cp = CPStart
    /\ sec = SECStart
    /\ runs = <<>>
    /\ request = NoRequest
    /\ registry = NoRegistry

\* run_module up to its return with errors or its call of simulation.run
RunModule ==
    /\ request.pc = "idle"
    /\ \E data \in FormData :
           LET parsed == ParseForm(data)
           IN request' =
                  IF parsed.errors # {}
                  THEN [ pc |-> "returned", data |-> data,
                         response |-> EarlyResponse(parsed), calls |-> <<>> ]
                  ELSE [ pc |-> "running", data |-> data,
                         response |-> EarlyResponse(parsed),
                         calls |-> <<SimParams(parsed.form)>> ]
    /\ UNCHANGED <<params, points, cp, sec, runs, registry>>

\* simulation.run returns and run_module completes the response
RunReturns ==
    /\ request.pc = "running"
    /\ RunOutcome(request.calls[1]) = "returns"
    /\ request' = [ request EXCEPT
                        !.pc = "returned",
                        !.response = [ @ EXCEPT
                            !.animation_html = "plot_html",
                            !.final_html = "plot_html",
                            !.rebuild_html = "plot_html",
                            !.summary = {"n_points", "best_distance",
                                         "best_pair", "rebuilds"} ] ]
    /\ UNCHANGED <<params, points, cp, sec, runs, registry>>

\* simulation.run raises and run_module passes the exception on
RunRaises ==
    /\ request.pc = "running"
    /\ RunOutcome(request.calls[1]) = "raises"
    /\ request' = [request EXCEPT !.pc = "raised"]
    /\ UNCHANGED <<params, points, cp, sec, runs, registry>>

FormNext == RunModule \/ RunReturns \/ RunRaises

SpecForm == FormInit /\ [][FormNext]_vars

\* ------------------------------------------------------ module registry
\* the MODULE_META of the packages _load_default_modules imports, in the
\* order of their registration
DefaultModules ==
    << [slug |-> "phase-transition", name |-> "Random Graphs G(n,p)"],
       [slug |-> "gnm", name |-> "Random Graph Edge Process (G(n, m))"],
       [slug |-> "union-area", name |-> "Monte Carlo Union of Rectangles"],
       [slug |-> "ln2-estimator", name |-> "Monte Carlo ln(2)"],
       [slug |-> "markov_intro", name |-> "Markov Chains - Basics"],
       [slug |-> "markov_random_2sat", name |-> "Markov Random 2-SAT Walk"],
       [slug |-> "markov_random_3sat", name |-> "Markov Random 3-SAT Walk"],
       [slug |-> "markov_random_walks", name |-> "Random Walks in Graphs"],
       [slug |-> "markov_metropolis_paths", name |-> "Metropolis-Hastings Grid Paths"],
       [slug |-> "ric-smallest-circle", name |-> "Smallest Enclosing Circle (RIC)"],
       [slug |-> "ric-closest-pair", name |-> "Closest Pair Distance (RIC)"],
       [slug |-> "bloom-filter", name |-> "Bloom Filter Simulator"] >>

DefaultSlugs == {DefaultModules[i].slug : i \in 1 .. Len(DefaultModules)}

\* the names in the order of Python's string comparison
NamesSorted ==
    << "Bloom Filter Simulator", "Closest Pair Distance (RIC)", "Custom Module",
       "Markov Chains - Basics", "Markov Random 2-SAT Walk", "Markov Random 3-SAT Walk",
       "Metropolis-Hastings Grid Paths", "Monte Carlo Union of Rectangles",
       "Monte Carlo ln(2)", "Random Graph Edge Process (G(n, m))",
       "Random Graphs G(n,p)", "Random Walks in Graphs",
       "Smallest Enclosing Circle (RIC)" >>

NameRank(name) == CHOOSE i \in 1 .. Len(NamesSorted) : NamesSorted[i] = name

\* _MODULES is a dictionary: a sequence of values with distinct slugs, in the
\* order of their first insertion
SlugsOf(modules) == {modules[i].slug : i \in 1 .. Len(modules)}

\* _MODULES[metadata.slug] = metadata
RegisterModule(modules, metadata) ==
    IF metadata.slug \in SlugsOf(modules)
    THEN [i \in 1 .. Len(modules) |->
              IF modules[i].slug = metadata.slug THEN metadata ELSE modules[i]]
    ELSE Append(modules, metadata)

RECURSIVE RegisterAll(_, _, _)
RegisterAll(modules, metas, i) ==
    IF i > Len(metas) THEN modules
    ELSE RegisterAll(RegisterModule(modules, metas[i]), metas, i + 1)

\* mutant: the guard is missing, every call registers the defaults again
LoadDefaultModulesAlways(reg) ==
    [reg EXCEPT !.modules = RegisterAll(@, DefaultModules, 1), !.loads = 1]

\* _load_default_modules: loads counts the calls that got past the guard
LoadDefaultModules(reg) ==
    IF reg.modules # <<>> THEN reg
    ELSE [reg EXCEPT !.modules = RegisterAll(@, DefaultModules, 1), !.loads = @ + 1]

\* sorted(values, key=name): a stable insertion sort
RECURSIVE InsertByName(_, _)
InsertByName(sorted, m) ==
    IF sorted = <<>> THEN <<m>>
    ELSE IF NameRank(sorted[Len(sorted)].name) <= NameRank(m.name) THEN Append(sorted, m)
    ELSE Append(InsertByName(SubSeq(sorted, 1, Len(sorted) - 1), m), sorted[Len(sorted)])

RECURSIVE SortedByName(_, _, _)
SortedByName(modules, i, sorted) ==
    IF i > Len(modules) THEN sorted
    ELSE SortedByName(modules, i + 1, InsertByName(sorted, modules[i]))

\* _MODULES.get(slug)
ModulesGet(modules, slug) ==
    IF slug \in SlugsOf(modules)
    THEN <<modules[CHOOSE i \in 1 .. Len(modules) : modules[i].slug = slug]>>
    ELSE <<>>

\* the modules the callers register: under two default slugs and a new one
RegisteredMetadata ==
    { [slug |-> sl, name |-> "Custom Module"] :
          sl \in {"ric-closest-pair", "ric-smallest-circle", "custom-module"} }

QueriedSlugs == {"ric-closest-pair", "bloom-filter", "custom-module", "missing-module"}

RegistryInit ==
    /\ params = [ n_points |-> 0, x_min |-> Bounds.x_min, x_max |-> Bounds.x_max,
                  y_min |-> Bounds.y_min, y_max |-> Bounds.y_max, seed |-> None,
                  fine |-> FALSE ]
    /\ points = <<>>
    /\ cp = CPStart
    /\ sec = SECStart
    /\ runs = <<>>
    /\ request = NoRequest
    /\ registry = NoRegistry

\* register_module(metadata)
CallRegisterModule ==
    /\ \E metadata \in RegisteredMetadata :
           registry' = [registry EXCEPT !.modules = RegisterModule(@, metadata),
                                        !.called = "register_module",
                                        !.result = <<>>]
    /\ UNCHANGED <<params, points, cp, sec, runs, request>>

\* list_modules()
CallListModules ==
    /\ LET reg == LoadDefaultModules(registry)
       IN registry' = [reg EXCEPT !.queried = TRUE,
                                  !.called = "list_modules",
                                  !.result = SortedByName(reg.modules, 1, <<>>)]
    /\ UNCHANGED <<params, points, cp, sec, runs, request>>

\* get_module_metadata(slug)
CallGetModuleMetadata ==
    /\ \E slug \in QueriedSlugs :
           LET reg == LoadDefaultModules(registry)
           IN registry' = [reg EXCEPT !.queried = TRUE,
                                      !.called = "get_module_metadata",
                                      !.result = ModulesGet(reg.modules, slug)]
    /\ UNCHANGED <<params, points, cp, sec, runs, request>>

RegistryNext == CallRegisterModule \/ CallListModules \/ CallGetModuleMetadata

SpecRegistry == RegistryInit /\ [][RegistryNext]_vars

\* ---------------------------------------------- closest pair: properties
MinOf(S) == CHOOSE m \in S : \A x \in S : m <= x

\* the distances of all C(k,2) pairs among the first k points of pts
PairDistances(pts, k) ==
    { Distance(pts[q[1]], pts[q[2]]) : q \in {r \in (1 .. k) \X (1 .. k) : r[1] < r[2]} }

\* best_distance of step record k, infinity while undefined; record 0 is the
\* state before any insertion
RecordedDistance(k) ==
    IF k = 0 \/ cp.states[k].best_distance = None THEN Inf ELSE cp.states[k].best_distance

\* a < b for distances, Inf above every distance
DistLess(a, b) == a # Inf /\ (b = Inf \/ a < b)

\* C1: from the second insertion on, the best_distance of the k-th step
\* record is the minimum of the pairwise distances of the first k points.
C1_BestDistanceIsMinimum ==
    \A k \in 2 .. Len(cp.states) :
        cp.states[k].best_distance = MinOf(PairDistances(points, k))

\* the third point is strictly closer to one of the first two than they are
\* to each other, it is no duplicate, and its partner lies in another cell
C1_Witness ==
    /\ Len(cp.states) = 3
    /\ cp.states[3].rebuild
    /\ cp.states[3].best_distance > 0
    /\ CellKey(cp.states[3].best_pair[2], Origin(params), cp.states[2].cell_size)
         # CellKey(points[3], Origin(params), cp.states[2].cell_size)

\* C2 as stated: from the second insertion on, cell_size equals
\* best_distance, duplicates included.
C2_CellSizeEqualsBestDistance ==
    \A k \in 2 .. Len(cp.states) : cp.states[k].cell_size = cp.states[k].best_distance

\* C2 as amended: from the second insertion on, cell_size is
\* max(best_distance, 1e-9): best_distance when that is not zero, 1e-9 after
\* a duplicate; the same holds of the engine's own cell_size and best_distance.
C2_CellSizeIsClampedBestDistance ==
    /\ \A k \in 2 .. Len(cp.states) :
           IF cp.states[k].best_distance > 0
           THEN cp.states[k].cell_size = cp.states[k].best_distance
           ELSE cp.states[k].best_distance = 0 /\ cp.states[k].cell_size = Eps
    /\ Len(cp.states) >= 2 =>
           /\ cp.cell_size = cp.states[Len(cp.states)].cell_size
           /\ cp.best_distance = cp.states[Len(cp.states)].best_distance

\* two distinct points, then a duplicate: the cell size follows the distance
\* and then stops at 1e-9
C2_Witness ==
    /\ Len(cp.states) = 3
    /\ cp.states[2].best_distance > 0
    /\ cp.states[2].cell_size = cp.states[2].best_distance
    /\ cp.states[3].best_distance = 0
    /\ cp.states[3].cell_size = Eps

\* C7: best_distance, infinity while undefined, never increases from one
\* step record to the next.
C7_BestDistanceNonIncreasing ==
    \A k \in 1 .. Len(cp.states) :
        ~DistLess(RecordedDistance(k - 1), RecordedDistance(k))

\* the distance is defined at the second point and strictly smaller at the third
C7_Witness ==
    /\ Len(cp.states) = 3
    /\ DistLess(RecordedDistance(2), RecordedDistance(1))
    /\ DistLess(RecordedDistance(3), RecordedDistance(2))

\* C8: a step is flagged rebuild exactly when best_distance strictly
\* decreased at it (infinity to a distance counts), and rebuilds counts the
\* flagged steps.
C8_RebuildIffStrictDecrease ==
    /\ \A k \in 1 .. Len(cp.states) :
           cp.states[k].rebuild <=> DistLess(RecordedDistance(k), RecordedDistance(k - 1))
    /\ cp.rebuilds = Cardinality({k \in 1 .. Len(cp.states) : cp.states[k].rebuild})

\* the third point is exactly as far from one of the first two as they are
\* from each other, and the step is not flagged
C8_Witness ==
    /\ Len(cp.states) = 3
    /\ cp.states[2].best_distance > 0
    /\ \E i \in 1 .. 2 : Distance(points[3], points[i]) = cp.states[2].best_distance
    /\ \A i \in 1 .. 2 : Distance(points[3], points[i]) >= cp.states[2].best_distance
    /\ ~cp.states[3].rebuild
    /\ cp.rebuilds = 1

\* ---------------------------------- smallest enclosing circle: properties
\* r1 <= r2 for the radii of two circles: r^2 = r2n / den^2
RadiusLeq(c1, c2) == c1.r2n * c2.den * c2.den <= c2.r2n * c1.den * c1.den

\* the circle c contains the first k points of pts
ContainsFirst(c, pts, k) == \A i \in 1 .. k : CenterDistSq(c, pts[i]) <= c.r2n

\* the circle c has centre p and radius 0
IsPointCircle(c, p) ==
    /\ c.den # 0
    /\ c.cxn = p[1] * c.den
    /\ c.cyn = p[2] * c.den
    /\ c.r2n = 0

\* the circle c has the midpoint of a and b as centre and half their distance
\* as radius
IsDiameterCircle(c, a, b) ==
    /\ c.den # 0
    /\ 2 * c.cxn = (a[1] + b[1]) * c.den
    /\ 2 * c.cyn = (a[2] + b[2]) * c.den
    /\ 4 * c.r2n = Distance(a, b) * c.den * c.den

\* the brute-force oracle: the circles through every pair and every
\* non-collinear triple of the first k points, and the point circles
SupportCircles(pts, k) ==
    { [cxn |-> pts[i][1], cyn |-> pts[i][2], den |-> 1, r2n |-> 0] : i \in 1 .. k }
    \cup { CircleFromTwoPoints(pts[q[1]], pts[q[2]]) :
               q \in {r \in (1 .. k) \X (1 .. k) : r[1] < r[2]} }
    \cup { CircleFromThreePoints(pts[q[1]], pts[q[2]], pts[q[3]]) :
               q \in {r \in (1 .. k) \X (1 .. k) \X (1 .. k) :
                         /\ r[1] < r[2] /\ r[2] < r[3]
                         /\ Determinant(pts[r[1]], pts[r[2]], pts[r[3]]) # 0} }

\* C3: the circle of the k-th step record contains each of the first k
\* points.
C3_CircleContainsProcessedPoints ==
    \A k \in 1 .. Len(sec.states) : ContainsFirst(sec.states[k].circle, points, k)

\* the third point lies outside the circle of the first two and the new
\* circle passes through three points that are not collinear
C3_Witness ==
    /\ Len(sec.states) = 3
    /\ sec.states[3].rebuild
    /\ Determinant(points[1], points[2], points[3]) # 0
    /\ \A i \in 1 .. 3 :
           CenterDistSq(sec.states[3].circle, points[i]) = sec.states[3].circle.r2n
    /\ ~IsDiameterCircle(sec.states[3].circle, points[1], points[2])
    /\ ~IsDiameterCircle(sec.states[3].circle, points[1], points[3])
    /\ ~IsDiameterCircle(sec.states[3].circle, points[2], points[3])

C6_RadiusNonDecreasing ==
    \A k \in 1 .. Len(sec.states) - 1 :
        RadiusLeq(sec.states[k].circle, sec.states[k + 1].circle)

\* the radius grows at the second and again at the third insertion
C6_Witness ==
    /\ Len(sec.states) = 3
    /\ ~RadiusLeq(sec.states[2].circle, sec.states[1].circle)
    /\ ~RadiusLeq(sec.states[3].circle, sec.states[2].circle)

\* C9 as stated: the first insertion makes the circle {center = point, r = 0}
\* and is reported with no rebuild: flag false, count not incremented.
C9_FirstPointNoRebuild ==
    Len(sec.states) >= 1 =>
        /\ IsPointCircle(sec.states[1].circle, points[1])
        /\ ~sec.states[1].rebuild
        /\ (Len(sec.states) = 1 => sec.rebuilds = 0)

\* C9 as amended: the first insertion makes the circle {center = point,
\* r = 0} and is reported as a rebuild: flag true, count incremented to 1.
C9_FirstPointIsRebuild ==
    Len(sec.states) >= 1 =>
        /\ IsPointCircle(sec.states[1].circle, points[1])
        /\ sec.states[1].rebuild
        /\ (Len(sec.states) = 1 => sec.rebuilds = 1)

\* exactly the first point has been inserted
C9_Witness == Len(sec.states) = 1 /\ sec.pc = "loop" /\ Len(points) >= 1

\* C10 as stated: with n = 2, after the second insertion the circle is the
\* diameter circle of the two points and both step records are flagged.
C10_TwoPointsDiameterBothRebuild ==
    (params.n_points = 2 /\ Len(sec.states) = 2) =>
        /\ IsDiameterCircle(sec.states[2].circle, points[1], points[2])
        /\ sec.states[1].rebuild
        /\ sec.states[2].rebuild

\* C10 as amended: with n = 2 the first step record is flagged; when the
\* second point lies outside the zero-radius circle of the first, the circle
\* is the diameter circle of the two and the second record is flagged too;
\* otherwise (a duplicate) the circle stays {center = first point, r = 0}
\* and the second record is not flagged.
C10_TwoPointsDiameterUnlessInside ==
    (params.n_points = 2 /\ Len(sec.states) = 2) =>
        /\ sec.states[1].rebuild
        /\ IF Distance(points[1], points[2]) > 0
           THEN /\ IsDiameterCircle(sec.states[2].circle, points[1], points[2])
                /\ sec.states[2].rebuild
           ELSE /\ IsPointCircle(sec.states[2].circle, points[1])
                /\ ~sec.states[2].rebuild

\* a finished run over two distinct points
C10_Witness ==
    /\ params.n_points = 2
    /\ sec.pc = "done"
    /\ points[1] # points[2]
    /\ sec.summary.rebuilds = 2

\* ------------------------------------------------- properties of two runs
\* two calls of the same engine with the same n_points, bounds and seed
SameCall(a, b) == a.engine = b.engine /\ a.params = b.params

C11_FirstRecordUndefinedThenDefined ==
    \A k \in 1 .. Len(cp.states) :
        IF k = 1
        THEN /\ cp.states[k].best_pair = NoPair
             /\ cp.states[k].best_distance = None
             /\ cp.states[k].cell_size = None
             /\ cp.states[k].rebuild = FALSE
        ELSE /\ cp.states[k].best_pair # NoPair
             /\ Len(cp.states[k].best_pair) = 2
             /\ cp.states[k].best_distance # None
             /\ cp.states[k].best_distance >= 0

\* the second insertion has been recorded after an undefined first record
C11_Witness ==
    /\ Len(cp.states) = 2
    /\ cp.states[1].best_distance = None
    /\ cp.states[2].best_distance # None
    /\ cp.pc = "loop"

\* ------------------------------------------------ the two worked scenarios
\* the default bounds of the form, 0.0 .. 10.0 on both axes, in lattice steps
DefaultParams ==
    [ n_points |-> 3, x_min |-> 0, x_max |-> DefaultMax,
      y_min |-> 0, y_max |-> DefaultMax, seed |-> None, fine |-> FALSE ]

\* (0,0), (4,0), (2,3) and (0,0), (10,10), (1,1) in lattice steps
ScenarioA == << <<0, 0>>, <<32, 0>>, <<16, 24>> >>
ScenarioB == << <<0, 0>>, <<80, 80>>, <<8, 8>> >>

\* rng.shuffle(points) hands the three points over in any order
Orders(s) ==
    { <<s[a], s[b], s[c]>> : <<a, b, c>> \in
          {t \in (1 .. 3) \X (1 .. 3) \X (1 .. 3) : Cardinality({t[1], t[2], t[3]}) = 3} }

\* both engines at the start of their loops over one stream of a scenario
ScenarioInit ==
    /\ params = DefaultParams
    /\ points \in Orders(ScenarioA) \cup Orders(ScenarioB)
    /\ cp = CPStart
    /\ sec = SECStart
    /\ runs = <<>>
    /\ request = NoRequest
    /\ registry = NoRegistry

ScenarioNext == CPNext \/ SECNext

SpecScenarios == ScenarioInit /\ [][ScenarioNext]_vars

\* floor(sqrt(n))
Isqrt(n) == CHOOSE m \in 0 .. 46339 : m * m <= n /\ n < (m + 1) * (m + 1)

\* the rebuild flags of the step records, in order
Flags(states) == [k \in 1 .. Len(states) |-> states[k].rebuild]

\* the run of the circle engine over scenario A has returned
ScenarioADone == points = ScenarioA /\ sec.pc = "done" /\ Len(sec.states) = 3

\* C12 as stated: scenario A ends with center (2.0, 0.75), a radius that
\* rounds to 2.36, and rebuild flags [true, true, true].  In lattice steps
\* the center is (16, 6) and the radius lies between 18.84 and 18.92.
C12_ScenarioACenterThreeQuarters ==
    ScenarioADone =>
        LET c == sec.states[3].circle
            s == Isqrt(c.r2n)
        IN /\ c.den # 0
           /\ c.cxn = 16 * c.den
           /\ c.cyn = 6 * c.den
           /\ 100 * (s + 1) > 1884 * Abs(c.den)
           /\ 100 * s < 1892 * Abs(c.den)
           /\ Flags(sec.states) = <<TRUE, TRUE, TRUE>>

\* C12 as amended: scenario A ends with the circumcircle of the three points,
\* center (2, 5/6) and radius 13/6, the summary reporting the same circle
\* with three boundary points, and rebuild flags [true, true, true].  In
\* lattice steps the center is (16, 20/3) and the radius 52/3.
C12_ScenarioACircumcircle ==
    ScenarioADone =>
        LET c == sec.states[3].circle
            m == (52 * Abs(c.den)) \div 3
        IN /\ c.den # 0
           /\ c.cxn = 16 * c.den
           /\ 3 * c.cyn = 20 * c.den
           /\ 3 * m = 52 * Abs(c.den)
           /\ m * m = c.r2n
           /\ \A i \in 1 .. 3 : CenterDistSq(c, points[i]) = c.r2n
           /\ sec.summary.center = <<c.cxn, c.cyn, c.den>>
           /\ sec.summary.radius = <<c.r2n, c.den>>
           /\ sec.summary.boundary_points = 3
           /\ Flags(sec.states) = <<TRUE, TRUE, TRUE>>

\* the circle engine has returned from scenario A with a three-point circle
C12_Witness == ScenarioADone /\ sec.states[3].circle.den \notin {0, 1, 2}

\* the run of the closest pair engine over scenario B has returned
ScenarioBDone == points = ScenarioB /\ cp.pc = "done" /\ Len(cp.states) = 3

\* C13: scenario B ends with the closest pair {(0,0), (1,1)} at distance
\* sqrt(2), in the last step record and in the summary, and with rebuild
\* flags [false, true, true].  In lattice steps the pair is {(0,0), (8,8)}
\* and the squared distance 128.
C13_ScenarioBClosestPair ==
    ScenarioBDone =>
        /\ Len(cp.states[3].best_pair) = 2
        /\ {cp.states[3].best_pair[1], cp.states[3].best_pair[2]} = {<<0, 0>>, <<8, 8>>}
        /\ cp.states[3].best_distance = 128
        /\ cp.summary.best_pair = cp.states[3].best_pair
        /\ cp.summary.best_distance = 128
        /\ Flags(cp.states) = <<FALSE, TRUE, TRUE>>

\* the closest pair engine has returned from scenario B, the pair seeded at
\* the second point having been replaced at the third
C13_Witness ==
    /\ ScenarioBDone
    /\ cp.states[2].best_pair = << <<0, 0>>, <<80, 80>> >>
    /\ cp.states[3].best_pair # cp.states[2].best_pair
    /\ cp.summary.rebuilds = 2

\* ------------------------------------------- closest pair: duplicate points
\* the places (cell, index) of the grid
GridPlaces(grid) ==
    UNION { {<<key, i>> : i \in 1 .. Len(grid[key])} : key \in DOMAIN grid }

\* how often pt is held by the grid, and how often it occurs in a list
GridCount(grid, pt) == Cardinality({q \in GridPlaces(grid) : grid[q[1]][q[2]] = pt})
ListCount(pts, pt) == Cardinality({i \in 1 .. Len(pts) : pts[i] = pt})

\* the grid holds the processed points, each as often as it was inserted
GridHoldsProcessed ==
    /\ Cardinality(GridPlaces(cp.grid)) = Len(cp.processed)
    /\ \A i \in 1 .. Len(cp.processed) :
           GridCount(cp.grid, cp.processed[i]) = ListCount(cp.processed, cp.processed[i])

\* insertion k repeats an earlier point of the stream
IsDuplicate(k) == \E i \in 1 .. k - 1 : points[i] = points[k]

\* C14: when an insertion of the closest-pair engine repeats a processed
\* point, its step record has best_distance 0 (and not None), every later
\* record has best_distance 0 and rebuild false, and from that insertion on
\* the grid holds every processed point.
C14_DuplicateGivesZeroAndStaysZero ==
    \A k \in 2 .. Len(cp.states) :
        IsDuplicate(k) =>
            /\ cp.states[k].best_distance = 0
            /\ cp.states[k].best_pair # NoPair
            /\ \A m \in k + 1 .. Len(cp.states) :
                   /\ cp.states[m].best_distance = 0
                   /\ cp.states[m].rebuild = FALSE
                   /\ cp.states[m].points = SubSeq(points, 1, m)
            /\ cp.processed = SubSeq(points, 1, Len(cp.states))
            /\ GridHoldsProcessed

\* a new point has been inserted after a duplicate of the first point
C14_Witness ==
    /\ Len(cp.states) = 3
    /\ points[2] = points[1]
    /\ points[3] # points[1]
    /\ cp.states[2].best_distance = 0
    /\ cp.states[2].rebuild = TRUE

\* ------------------------------------------------ controller: properties
\* the parsed bounds of the request violate x_min < x_max or y_min < y_max
BoundsViolated ==
    LET f == request.response.parameters
    IN ~FloatLt(f.x_min, f.x_max) \/ ~FloatLt(f.y_min, f.y_max)

\* the request was rejected: errors, empty outputs, empty summary, and no
\* call of simulation.run
Rejected ==
    /\ request.pc = "returned"
    /\ request.response.errors # {}
    /\ request.response.animation_html = ""
    /\ request.response.final_html = ""
    /\ request.response.rebuild_html = ""
    /\ request.response.summary = {}
    /\ request.calls = <<>>

\* C15: when the submitted bounds violate x_min < x_max or y_min < y_max,
\* run_module returns the errors with empty outputs and an empty summary and
\* never calls simulation.run.
C15_InvalidBoundsRejected ==
    (request.pc # "idle" /\ BoundsViolated) => Rejected

\* C15, the part the code keeps: a request whose bounds compare x_min >= x_max
\* or y_min >= y_max is rejected without a call of simulation.run.
C15_OrderedBoundsRejected ==
    (request.pc # "idle"
        /\ (\/ FloatGe(request.response.parameters.x_min, request.response.parameters.x_max)
            \/ FloatGe(request.response.parameters.y_min, request.response.parameters.y_max)))
    => Rejected

\* simulation.run has been called with x_min = nan
C15_NanPassesValidation ==
    /\ request.pc = "running"
    /\ request.data.x_min = "nan"
    /\ request.calls # <<>>
    /\ request.calls[1].x_min = FloatNaN

\* ------------------------------------------------ point stream: properties
\* the number of places of pts that hold pt is the same in both lists
SameMultiset(a, b) ==
    /\ Len(a) = Len(b)
    /\ \A i \in 1 .. Len(a) : ListCount(a, a[i]) = ListCount(b, a[i])

InBounds(p, pt) ==
    /\ p.x_min <= pt[1] /\ pt[1] <= p.x_max
    /\ p.y_min <= pt[2] /\ pt[2] <= p.y_max

\* C16: the point stream of a run has exactly n_points points, every one
\* within the bounds, and the shuffle only permutes the sample: the points
\* returned are the sampled points, each as often as it was sampled.
C16_StreamHasNPointsInBoundsPermuted ==
    \A i \in 1 .. Len(runs) :
        /\ Len(runs[i].points) = runs[i].params.n_points
        /\ Len(runs[i].sampled) = runs[i].params.n_points
        /\ \A k \in 1 .. Len(runs[i].points) : InBounds(runs[i].params, runs[i].points[k])
        /\ SameMultiset(runs[i].sampled, runs[i].points)

\* a run of three points whose first draw fell outside the bounds and was
\* rejected, and whose shuffle changed the order of the sample
C16_Witness ==
    \E i \in 1 .. Len(runs) :
        /\ runs[i].params.n_points = 3
        /\ runs[i].params.seed # None
        /\ GaussValue(RngNext(RngSeed(runs[i].params.seed, 0))) \notin Coords
        /\ runs[i].points # runs[i].sampled
        /\ Cardinality({runs[i].points[k] : k \in 1 .. 3}) >= 2

\* C17: a run of the smallest-enclosing-circle engine and a run of the
\* closest-pair engine with the same (n_points, bounds, seed), the seed not
\* None, return the same ordered list of points.
C17_BothEnginesSameStream ==
    \A i, j \in 1 .. Len(runs) :
        ( /\ runs[i].engine = "closest_pair"
          /\ runs[j].engine = "smallest_enclosing_circle"
          /\ runs[i].params = runs[j].params
          /\ runs[i].params.seed # None )
        => runs[i].points = runs[j].points

\* each engine has run once with the same seed over three points that the
\* shuffle has reordered
C17_Witness ==
    /\ Len(runs) = 2
    /\ runs[1].engine = "smallest_enclosing_circle"
    /\ runs[2].engine = "closest_pair"
    /\ runs[1].params = runs[2].params
    /\ runs[1].params.seed # None
    /\ runs[1].params.n_points = 3
    /\ runs[1].points # runs[1].sampled
    /\ runs[2].points = runs[1].points

\* ------------------------------------------- both engines: the step records
\* record k (counted from 1) of a list of step records is the record of the
\* insertion of points[k]
RecordOfInsertion(states, k) ==
    /\ states[k].step = k - 1
    /\ states[k].point = points[k]
    /\ states[k].points = SubSeq(points, 1, k)

\* C18: both engines emit one step record per inserted point, in insertion
\* order: a returned run has n_points records, and the k-th record (0-based)
\* has step k, point points[k] and as its points the first k+1 points of the
\* stream.
C18_OneRecordPerInsertionInOrder ==
    /\ Len(points) = params.n_points
    /\ Len(cp.states) <= Len(points)
    /\ Len(sec.states) <= Len(points)
    /\ \A k \in 1 .. Len(cp.states) : RecordOfInsertion(cp.states, k)
    /\ \A k \in 1 .. Len(sec.states) : RecordOfInsertion(sec.states, k)
    /\ cp.pc = "done" => Len(cp.states) = params.n_points
    /\ sec.pc = "done" => Len(sec.states) = params.n_points

\* the circle engine has returned from a run over three points
C18_Witness ==
    /\ sec.pc = "done"
    /\ params.n_points = 3
    /\ Len(sec.states) = 3
    /\ sec.states[3].step = 2
    /\ sec.states[2].points = SubSeq(points, 1, 2)

\* ----------------------------------------------- both engines: the summary
\* the number of step records flagged as rebuilds
RebuildCount(states) == Cardinality({k \in 1 .. Len(states) : states[k].rebuild})

\* C19: in a returned run of either engine summary.rebuilds is the number of
\* step records flagged rebuild, summary.n_points is the number of step
\* records, and the answer of the summary (best_pair and best_distance, or
\* center and radius) is the answer of the last step record.
C19_SummaryAgreesWithRecords ==
    /\ cp.pc = "done" =>
           /\ cp.summary.rebuilds = RebuildCount(cp.states)
           /\ cp.summary.n_points = Len(cp.states)
           /\ Len(cp.states) >= 1 =>
                  /\ cp.summary.best_pair = cp.states[Len(cp.states)].best_pair
                  /\ cp.summary.best_distance = cp.states[Len(cp.states)].best_distance
    /\ sec.pc = "done" =>
           /\ sec.summary.rebuilds = RebuildCount(sec.states)
           /\ sec.summary.n_points = Len(sec.states)
           /\ Len(sec.states) >= 1 =>
                  LET c == sec.states[Len(sec.states)].circle
                  IN /\ sec.summary.center = <<c.cxn, c.cyn, c.den>>
                     /\ sec.summary.radius = <<c.r2n, c.den>>

\* the closest pair engine has returned from a run of three insertions, one
\* of them without a rebuild after the pair was seeded
C19_Witness ==
    /\ cp.pc = "done"
    /\ Len(cp.states) = 3
    /\ cp.states[3].rebuild = FALSE
    /\ cp.summary.rebuilds = 1
    /\ cp.summary.best_distance = cp.states[3].best_distance

\* --------------------------------------- both engines: records are snapshots
\* the step records present before a step are the same after it
RecordsKept(before, after) ==
    /\ Len(after) >= Len(before)
    /\ \A k \in 1 .. Len(before) : after[k] = before[k]

GridKeysCurrent ==
    \A q \in GridPlaces(cp.grid) :
        LET pt == cp.grid[q[1]][q[2]]
        IN q[1] = << FloorDiv(pt[1] - params.x_min, cp.cell_size),
                     FloorDiv(pt[2] - params.y_min, cp.cell_size) >>

\* C21: after every insertion of the closest-pair engine from the second on,
\* the grid holds exactly the processed points, each as often as it was
\* inserted, and every point is stored under the cell key
\* (floor((x - x_min) / cell_size), floor((y - y_min) / cell_size)) of the
\* current cell_size.
C21_GridHoldsProcessedUnderCurrentKeys ==
    Len(cp.states) >= 2 =>
        /\ cp.cell_size # None
        /\ GridHoldsProcessed
        /\ GridKeysCurrent
        /\ \A key \in DOMAIN cp.grid : Len(cp.grid[key]) >= 1

\* the third insertion has shrunk the distance and the rebuilt grid spreads
\* the three points over more than one cell
C21_Witness ==
    /\ Len(cp.states) = 3
    /\ cp.states[3].rebuild = TRUE
    /\ cp.states[3].cell_size # cp.states[2].cell_size
    /\ Cardinality(DOMAIN cp.grid) >= 2
    /\ cp.pc = "loop"

\* --------------------------------------- closest pair: the 3x3 neighbourhood
\* the point the loop of run() inserts next, and the candidates its scan
\* gathers from the grid as it stands
NextPoint == points[Len(cp.states) + 1]
NextCandidates ==
    NeighborPoints(cp.grid, CellKey(NextPoint, Origin(params), cp.cell_size))

\* a third or later insertion is about to scan the grid
ScanPending == cp.pc = "loop" /\ Len(cp.states) >= 2 /\ Len(cp.states) < Len(points)

\* C22: at every insertion of the closest-pair engine from the third on,
\* every processed point whose distance to the new point is strictly smaller
\* than the current best_distance is among the candidates gathered from the
\* 3x3 cells around the cell of the new point.
C22_CloserPointsAreCandidates ==
    ScanPending =>
        \A i \in 1 .. Len(cp.processed) :
            Distance(cp.processed[i], NextPoint) < cp.best_distance =>
                \E c \in 1 .. Len(NextCandidates) : NextCandidates[c] = cp.processed[i]

\* the third point is closer to a processed point than the seeded pair, and
\* that point lies in another cell than the new point
C22_Witness ==
    /\ ScanPending
    /\ Len(cp.states) = 2
    /\ \E i \in 1 .. 2 :
           /\ Distance(cp.processed[i], NextPoint) < cp.best_distance
           /\ CellKey(cp.processed[i], Origin(params), cp.cell_size)
                  # CellKey(NextPoint, Origin(params), cp.cell_size)

\* ------------------------------------------------ closest pair: the pair
\* pair is made of the points at two different places among the first k
\* points of the stream
PairOfTwoPlaces(pair, k) ==
    /\ Len(pair) = 2
    /\ \E i, j \in 1 .. k : i # j /\ pair[1] = points[i] /\ pair[2] = points[j]

\* C23: whenever the best_pair of a step record of the closest-pair engine
\* is defined, it is made of two processed points from two different places
\* of the stream and best_distance is the distance between them; at the
\* second insertion best_pair is (p0, p1).
C23_BestPairIsTwoProcessedPoints ==
    /\ \A k \in 1 .. Len(cp.states) :
           cp.states[k].best_pair # NoPair =>
               /\ PairOfTwoPlaces(cp.states[k].best_pair, k)
               /\ cp.states[k].best_distance
                      = Distance(cp.states[k].best_pair[1], cp.states[k].best_pair[2])
    /\ Len(cp.states) >= 2 => cp.states[2].best_pair = <<points[1], points[2]>>
    /\ cp.best_pair # NoPair =>
           /\ PairOfTwoPlaces(cp.best_pair, Len(cp.processed))
           /\ cp.best_distance = Distance(cp.best_pair[1], cp.best_pair[2])

\* the pair seeded at the second insertion has been replaced at the third by
\* the new point and one of its neighbours
C23_Witness ==
    /\ Len(cp.states) = 3
    /\ cp.states[2].best_pair = <<points[1], points[2]>>
    /\ cp.states[3].best_pair[1] = points[3]
    /\ cp.states[3].best_pair # cp.states[2].best_pair
    /\ cp.states[3].best_distance > 0

\* ------------------------------- smallest enclosing circle: inside, outside
\* the circle engine takes a step that inserts a point after the first
SECInsertsLater ==
    /\ Len(sec.states) >= 1
    /\ Len(sec'.states) = Len(sec.states) + 1

\* the point that step inserts, and the step record it appends
SECNextPoint == points[Len(sec.states) + 1]
SECNewRecord == sec'.states[Len(sec.states) + 1]

\* C24: when the circle engine inserts a point after the first that lies
\* inside the current circle, the circle stays as it is (the circle of the
\* previous step record), the step is flagged rebuild = false and the rebuild
\* count is not incremented.
C24_InsidePointLeavesCircle ==
    [][ (SECInsertsLater /\ Inside(sec.circle, SECNextPoint)) =>
            /\ sec'.circle = sec.circle
            /\ SECNewRecord.circle = sec.states[Len(sec.states)].circle
            /\ SECNewRecord.rebuild = FALSE
            /\ sec'.rebuilds = sec.rebuilds ]_vars

\* the third point, different from the first two, fell inside their circle
C24_Witness ==
    /\ Len(sec.states) = 3
    /\ sec.states[3].rebuild = FALSE
    /\ sec.states[2].rebuild = TRUE
    /\ points[3] \notin {points[1], points[2]}
    /\ sec.states[3].circle = sec.states[2].circle
    /\ sec.rebuilds = 2

\* C25: when the circle engine inserts a point after the first that lies
\* outside the current circle, the step is flagged rebuild = true, the
\* rebuild count grows by one, and the inserted point lies on the boundary of
\* the new circle: its distance to the new center is the new radius.
C25_OutsidePointOnNewBoundary ==
    [][ (SECInsertsLater /\ ~Inside(sec.circle, SECNextPoint)) =>
            /\ SECNewRecord.rebuild = TRUE
            /\ sec'.rebuilds = sec.rebuilds + 1
            /\ SECNewRecord.circle = sec'.circle
            /\ sec'.circle.den # 0
            /\ CenterDistSq(sec'.circle, SECNextPoint) = sec'.circle.r2n ]_vars

\* the third point fell outside the circle of the first two and the rebuilt
\* circle passes through all three points
C25_Witness ==
    /\ Len(sec.states) = 3
    /\ sec.states[3].rebuild = TRUE
    /\ ~Inside(sec.states[2].circle, points[3])
    /\ \A i \in 1 .. 3 : CenterDistSq(sec.circle, points[i]) = sec.circle.r2n
    /\ sec.circle.r2n > 0

\* ------------------------------------------- the circle of three points
\* the circle of three inserted points, taken in any order and with
\* repetitions
ThreePointCircle(i, j, k) == CircleFromThreePoints(points[i], points[j], points[k])

\* C26: for any three points, collinear and repeated ones included, the circle
\* of three points is a circle (no division by zero) of radius >= 0 that
\* contains the three points, and it is the circle of the farthest pair when
\* the determinant is near zero
C26_ThreePointCircleContainsInputs ==
    \A i, j, k \in 1 .. Len(sec.states) :
        LET c == ThreePointCircle(i, j, k)
        IN /\ c.den # 0
           /\ c.r2n >= 0
           /\ Inside(c, points[i]) /\ Inside(c, points[j]) /\ Inside(c, points[k])
           /\ DetNearZero(Determinant(points[i], points[j], points[k]))
                  => c = CircleFromFarthestPair(points[i], points[j], points[k])

\* a run over the three corners of an acute triangle of a few 1e-7 has ended
\* with a circle that leaves one of them outside
C26_Witness ==
    /\ params.fine
    /\ points = << <<0, 0>>, <<2, 1>>, <<1, 2>> >>
    /\ sec.pc = "done"
    /\ DetNearZero(Determinant(points[1], points[2], points[3]))
    /\ \E i \in 1 .. 3 : ~Inside(sec.circle, points[i])

\* the runs within bounds of a few 1e-7 in which the near-zero test of the
\* determinant takes the circle of the farthest pair for an acute triangle
\* a step record whose circle leaves an inserted point outside
C3_FineCircleMissesPoint ==
    /\ params.fine
    /\ \E k \in 1 .. Len(sec.states) :
           /\ sec.states[k].rebuild
           /\ ~ContainsFirst(sec.states[k].circle, points, k)

\* a step record whose radius is smaller than that of the record before it
C6_FineRadiusShrinks ==
    /\ params.fine
    /\ \E k \in 1 .. Len(sec.states) - 1 :
           ~RadiusLeq(sec.states[k].circle, sec.states[k + 1].circle)

\* a rebuild whose circle does not pass through the inserted point
C25_FinePointOffBoundary ==
    /\ params.fine
    /\ \E k \in 2 .. Len(sec.states) :
           /\ sec.states[k].rebuild
           /\ CenterDistSq(sec.states[k].circle, points[k]) # sec.states[k].circle.r2n

\* ------------------------------------------------- rebuilds and the radius
\* C29: every step record after the first that is flagged rebuild = true has
\* a strictly larger radius than the step record before it
C29_RebuildStrictlyIncreasesRadius ==
    \A k \in 2 .. Len(sec.states) :
        sec.states[k].rebuild =>
            ~RadiusLeq(sec.states[k].circle, sec.states[k - 1].circle)

\* a rebuild within bounds of a few 1e-7 that leaves the radius as it was or
\* makes it smaller
C29_Witness ==
    /\ params.fine
    /\ \E k \in 2 .. Len(sec.states) :
           /\ sec.states[k].rebuild
           /\ RadiusLeq(sec.states[k].circle, sec.states[k - 1].circle)

\* ------------------------------------------------------- module registry
\* C27: once list_modules or get_module_metadata has been called, the default
\* modules have been loaded exactly once and every default slug is registered
C27_DefaultsLoadedOnceAfterFirstQuery ==
    registry.queried =>
        /\ registry.loads = 1
        /\ DefaultSlugs \subseteq SlugsOf(registry.modules)

\* the part of C27 that holds: a call of list_modules or get_module_metadata
\* on a registry that is not empty registers nothing, so a module registered
\* under a default slug is not overwritten by the defaults
C27_QueriesKeepRegisteredModules ==
    [][ (registry.modules # <<>> /\ registry'.called # "register_module") =>
            /\ registry'.modules = registry.modules
            /\ registry'.loads = registry.loads ]_vars

\* list_modules has returned without any default module: a module had been
\* registered before the first call
C27_DefaultsNeverLoaded ==
    /\ registry.called = "list_modules"
    /\ registry.loads = 0
    /\ registry.result # <<>>
    /\ \A i \in 1 .. Len(registry.result) : registry.result[i].slug \notin DefaultSlugs

\* ------------------------------------------------ closest pair: cell size
\* no cell index of the grid came out of a division by zero
NoZeroDivision ==
    \A key \in DOMAIN cp.grid : key[1] # ZeroDivision /\ key[2] # ZeroDivision

\* cell_size as the code holds it: None, 1e-9, or a positive distance
IsPositive(cell_size) == cell_size = Eps \/ cell_size > 0

\* C28: once defined (from the second insertion on), the cell_size of the
\* closest-pair engine is strictly positive, at least 1e-9, also when
\* best_distance is 0 after a duplicate, it stays defined, and no cell index
\* is computed by a division by zero
C28_CellSizePositiveOnceDefined ==
    /\ \A k \in 1 .. Len(cp.states) :
           /\ cp.states[k].cell_size # None => IsPositive(cp.states[k].cell_size)
           /\ k >= 2 => cp.states[k].cell_size # None
    /\ cp.cell_size # None => IsPositive(cp.cell_size)
    /\ NoZeroDivision

\* a duplicate has made best_distance 0 and cell_size 1e-9, and a later
\* insertion has computed its cell with it
C28_Witness ==
    /\ Len(cp.states) = 3
    /\ cp.states[2].best_distance = 0
    /\ cp.states[2].cell_size = Eps
    /\ cp.states[3].cell_size = Eps
    /\ points[3] # points[1]
    /\ Cardinality(DOMAIN cp.grid) = 2

\* ------------------------------------------- controller: complete validation
\* the bounds simulation.run was called with
HandedBounds == request.calls[1]

\* C30: whenever parse_form returns no errors, the bounds handed to
\* simulation.run are finite and satisfy x_min < x_max and y_min < y_max, so
\* that the sampling loop accepts points and the run returns
C30_ValidatedBoundsFiniteAndOrdered ==
    request.calls # <<>> =>
        /\ IsFinite(HandedBounds.x_min) /\ IsFinite(HandedBounds.x_max)
        /\ IsFinite(HandedBounds.y_min) /\ IsFinite(HandedBounds.y_max)
        /\ FloatLt(HandedBounds.x_min, HandedBounds.x_max)
        /\ FloatLt(HandedBounds.y_min, HandedBounds.y_max)
        /\ RunOutcome(HandedBounds) = "returns"

\* the part of C30 that holds: bounds that passed the validation and are
\* finite are strictly ordered, and the run over them returns
C30_FiniteValidatedBoundsOrdered ==
    (/\ request.calls # <<>>
     /\ IsFinite(HandedBounds.x_min) /\ IsFinite(HandedBounds.x_max)
     /\ IsFinite(HandedBounds.y_min) /\ IsFinite(HandedBounds.y_max))
    => /\ FloatLt(HandedBounds.x_min, HandedBounds.x_max)
       /\ FloatLt(HandedBounds.y_min, HandedBounds.y_max)
       /\ RunOutcome(HandedBounds) = "returns"

\* x_max = inf has passed the validation and simulation.run has raised
C30_InfinitePassesValidation ==
    /\ request.pc = "raised"
    /\ request.response.errors = {}
    /\ request.data.x_max = "inf"
    /\ HandedBounds.x_max = FloatInf

====
